---- MODULE Spec2Model ----
(***************************************************************************)
(* Model of src/ticket_categorizer.py: the rule-based categorization       *)
(* engine categorize_ticket, the TicketInput validation that FastAPI runs  *)
(* on the body of POST /categorize, and the handler                        *)
(* classify_ticket_endpoint.                                               *)
(*                                                                         *)
(* Python strings are sequences of one-character strings, so that          *)
(* str.lower(), str.upper() and the substring test (kw in s) are computed  *)
(* character by character.                                                 *)
(***************************************************************************)
EXTENDS Integers, Sequences, FiniteSets, TLC

VARIABLES pc, via, request, ticket, outcome, response, engineCalls, responsesSent

vars == <<pc, via, request, ticket, outcome, response, engineCalls, responsesSent>>

(***************************************************************************)
(* Bounds.                                                                 *)
(***************************************************************************)
\* A summary is the concatenation of at most MaxFrags fragments.
MaxFrags == 2

(***************************************************************************)
(* str.lower() and str.upper() on the ASCII letters.                       *)
(***************************************************************************)
UpperLetters ==
  <<"A", "B", "C", "D", "E", "F", "G", "H", "I", "J", "K", "L", "M",
    "N", "O", "P", "Q", "R", "S", "T", "U", "V", "W", "X", "Y", "Z">>

LowerLetters ==
  <<"a", "b", "c", "d", "e", "f", "g", "h", "i", "j", "k", "l", "m",
    "n", "o", "p", "q", "r", "s", "t", "u", "v", "w", "x", "y", "z">>

lower_char(c) ==
  IF \E i \in 1..26 : UpperLetters[i] = c
    THEN LowerLetters[CHOOSE i \in 1..26 : UpperLetters[i] = c]
    ELSE c

upper_char(c) ==
  IF \E i \in 1..26 : LowerLetters[i] = c
    THEN UpperLetters[CHOOSE i \in 1..26 : LowerLetters[i] = c]
    ELSE c

\* A lower() that leaves the string as it was given.
lower_omitted(s) == s

lower(s) == [i \in 1..Len(s) |-> lower_char(s[i])]

upper(s) == [i \in 1..Len(s) |-> upper_char(s[i])]

(***************************************************************************)
(* keyword in summary_lower: substring containment at any offset.          *)
(***************************************************************************)
IsWordChar(c) ==
  \/ \E i \in 1..26 : LowerLetters[i] = c \/ UpperLetters[i] = c
  \/ c \in {"0", "1", "2", "3", "4", "5", "6", "7", "8", "9"}

\* Containment that only accepts an occurrence standing as a whole word.
contains_whole_word(keyword, s) ==
  \E off \in 0..(Len(s) - Len(keyword)) :
    /\ \A j \in 1..Len(keyword) : s[off + j] = keyword[j]
    /\ off > 0 => ~IsWordChar(s[off])
    /\ off + Len(keyword) < Len(s) => ~IsWordChar(s[off + Len(keyword) + 1])

contains(keyword, s) ==
  \E off \in 0..(Len(s) - Len(keyword)) :
    \A j \in 1..Len(keyword) : s[off + j] = keyword[j]

\* any(keyword in summary_lower for keyword in keywords)
any_keyword_in(keywords, summary_lower) ==
  \E k \in 1..Len(keywords) : contains(keywords[k], summary_lower)

(***************************************************************************)
(* The string literals of categorize_ticket.                               *)
(***************************************************************************)
critical == <<"c", "r", "i", "t", "i", "c", "a", "l">>
high == <<"h", "i", "g", "h">>
medium == <<"m", "e", "d", "i", "u", "m">>
low == <<"l", "o", "w">>

code_keywords ==
  << <<"e", "r", "r", "o", "r">>,
     <<"f", "a", "i", "l", "u", "r", "e">>,
     <<"b", "u", "g">>,
     <<"4", "0", "4">>,
     <<"5", "0", "0">>,
     <<"i", "n", "c", "o", "r", "r", "e", "c", "t", " ", "c", "a", "l", "c", "u", "l", "a", "t", "i", "o", "n">>,
     <<"d", "a", "t", "a", "b", "a", "s", "e">>,
     <<"a", "p", "i", " ", "d", "o", "w", "n">>,
     <<"s", "y", "s", "t", "e", "m", " ", "c", "r", "a", "s", "h">> >>

financial_keywords ==
  << <<"f", "r", "a", "u", "d">>,
     <<"t", "r", "a", "n", "s", "a", "c", "t", "i", "o", "n">>,
     <<"p", "a", "y", "m", "e", "n", "t", " ", "p", "r", "o", "c", "e", "s", "s", "i", "n", "g">> >>

workflow_keywords ==
  << <<"f", "o", "r", "g", "o", "t", " ", "p", "a", "s", "s", "w", "o", "r", "d">>,
     <<"r", "e", "s", "e", "t", " ", "p", "i", "n">>,
     <<"l", "o", "c", "k", "e", "d">>,
     <<"a", "c", "c", "o", "u", "n", "t", " ", "b", "l", "o", "c", "k", "e", "d">>,
     <<"r", "a", "t", "e", " ", "l", "i", "m", "i", "t">>,
     <<"c", "a", "n", "n", "o", "t", " ", "l", "o", "g", " ", "i", "n">>,
     <<"u", "p", "d", "a", "t", "e", " ", "a", "d", "d", "r", "e", "s", "s">> >>

inquiry_keywords ==
  << <<"h", "o", "w", " ", "t", "o">>,
     <<"q", "u", "e", "s", "t", "i", "o", "n", " ", "a", "b", "o", "u", "t">>,
     <<"n", "e", "e", "d", " ", "h", "e", "l", "p", " ", "w", "i", "t", "h">>,
     <<"i", "n", "q", "u", "i", "r", "e">> >>

(***************************************************************************)
(* ActionType and ActionPlan.  reasoning is an f-string: its template and *)
(* the values interpolated into it (the backquotes of the source text are *)
(* written as apostrophes).                                                *)
(***************************************************************************)
AI_CODE_PATCH == "AI_CODE_PATCH"
VIBE_WORKFLOW == "VIBE_WORKFLOW"

ActionType == {AI_CODE_PATCH, VIBE_WORKFLOW}

ActionPlan(decision, template, severity_arg, summary_arg, checklist) ==
  [decision |-> decision,
   reasoning |-> [template |-> template, severity |-> severity_arg, summary |-> summary_arg],
   next_actions_checklist |-> checklist]

\* Python's None where an ActionPlan is expected.
NonePlan == ActionPlan("None", "", <<>>, <<>>, <<>>)

Rule1Checklist ==
  <<"Verify bug is reproducible in staging environment.",
    "Create a detailed Jira ticket linking logs.",
    "Tag SRE team for immediate monitoring.">>

Rule2Checklist ==
  <<"Immediately freeze affected user accounts/processes.",
    "Alert compliance and security teams.",
    "Capture full transaction log details.">>

Rule3Checklist ==
  <<"Run Vibe Script 'User-Account-Unblock-v1.0'.",
    "Confirm two-factor authentication reset with user via secure channel.",
    "Document successful run in the ticket notes.">>

Rule4Checklist ==
  <<"Check internal knowledge base for an existing Vibe script.",
    "Reply with documented steps/FAQ link.",
    "If no Vibe script exists, manually triage to L1 support.">>

DefaultAChecklist ==
  <<"Manually triage to L2 developer support.",
    "Review the system health dashboard immediately.",
    "Capture full user session data.">>

DefaultBChecklist ==
  <<"Escalate to the appropriate L1 support queue for manual review.",
    "Monitor ticket for 30 minutes for any change in status.">>

Rule1Plan(severity, t) ==
  ActionPlan(AI_CODE_PATCH,
    "Severity is **{severity.upper()}** and summary suggests a core system/code failure ('{ticket.summary}').",
    upper(severity), t.summary, Rule1Checklist)

Rule2Plan(t) ==
  ActionPlan(AI_CODE_PATCH,
    "Severity is **HIGH** and involves a critical financial process ('{ticket.summary}'). Likely requires code audit/patch.",
    <<>>, t.summary, Rule2Checklist)

Rule3Plan(severity) ==
  ActionPlan(VIBE_WORKFLOW,
    "Severity is **{severity.upper()}** and issue relates to known user/account procedural action. Vibe workflow exists.",
    upper(severity), <<>>, Rule3Checklist)

Rule4Plan ==
  ActionPlan(VIBE_WORKFLOW,
    "The ticket appears to be a general inquiry or procedural request, best handled by a documented Vibe troubleshooting script.",
    <<>>, <<>>, Rule4Checklist)

DefaultAPlan(severity) ==
  ActionPlan(AI_CODE_PATCH,
    "Default routing for **{severity.upper()}** tickets. System failure is the most cautious default.",
    upper(severity), <<>>, DefaultAChecklist)

DefaultBPlan ==
  ActionPlan(VIBE_WORKFLOW,
    "Default routing for unclassified medium/low severity tickets, assumed to be procedural.",
    <<>>, <<>>, DefaultBChecklist)

(***************************************************************************)
(* The conditions of categorize_ticket, in the order the code tests them.  *)
(***************************************************************************)
\* Rule 1 without its severity test.
Rule1AnySeverity(severity, summary_lower) ==
  any_keyword_in(code_keywords, summary_lower)

Rule1Matches(severity, summary_lower) ==
  /\ severity \in {critical, high}
  /\ any_keyword_in(code_keywords, summary_lower)

Rule2Matches(severity, summary_lower) ==
  /\ severity = high
  /\ any_keyword_in(financial_keywords, summary_lower)

Rule3Matches(severity, summary_lower) ==
  /\ severity \in {medium, low}
  /\ any_keyword_in(workflow_keywords, summary_lower)

Rule4Matches(summary_lower) ==
  any_keyword_in(inquiry_keywords, summary_lower)

\* A default A that takes every severity that is not routine.
DefaultANotRoutine(severity) == severity \notin {medium, low}

DefaultAMatches(severity) == severity \in {critical, high}

\* categorize_ticket with the urgent default tested before rule 4.
categorize_ticket_default_first(t) ==
  LET summary_lower == lower(t.summary)
      severity == lower(t.severity)
  IN  IF Rule1Matches(severity, summary_lower) THEN Rule1Plan(severity, t)
      ELSE IF Rule2Matches(severity, summary_lower) THEN Rule2Plan(t)
      ELSE IF Rule3Matches(severity, summary_lower) THEN Rule3Plan(severity)
      ELSE IF DefaultAMatches(severity) THEN DefaultAPlan(severity)
      ELSE IF Rule4Matches(summary_lower) THEN Rule4Plan
      ELSE DefaultBPlan

\* categorize_ticket with rule 2 tested before rule 1.
categorize_ticket_rule2_first(t) ==
  LET summary_lower == lower(t.summary)
      severity == lower(t.severity)
  IN  IF Rule2Matches(severity, summary_lower) THEN Rule2Plan(t)
      ELSE IF Rule1Matches(severity, summary_lower) THEN Rule1Plan(severity, t)
      ELSE IF Rule3Matches(severity, summary_lower) THEN Rule3Plan(severity)
      ELSE IF Rule4Matches(summary_lower) THEN Rule4Plan
      ELSE IF DefaultAMatches(severity) THEN DefaultAPlan(severity)
      ELSE DefaultBPlan

\* categorize_ticket whose last return is guarded by the routine severities,
\* so that any other ticket falls off the end of the function.
categorize_ticket_guarded_default(t) ==
  LET summary_lower == lower(t.summary)
      severity == lower(t.severity)
  IN  IF Rule1Matches(severity, summary_lower) THEN Rule1Plan(severity, t)
      ELSE IF Rule2Matches(severity, summary_lower) THEN Rule2Plan(t)
      ELSE IF Rule3Matches(severity, summary_lower) THEN Rule3Plan(severity)
      ELSE IF Rule4Matches(summary_lower) THEN Rule4Plan
      ELSE IF DefaultAMatches(severity) THEN DefaultAPlan(severity)
      ELSE IF severity = medium THEN DefaultBPlan
      ELSE NonePlan

categorize_ticket(t) ==
  LET summary_lower == lower(t.summary)
      severity == lower(t.severity)
  IN  IF Rule1Matches(severity, summary_lower) THEN Rule1Plan(severity, t)
      ELSE IF Rule2Matches(severity, summary_lower) THEN Rule2Plan(t)
      ELSE IF Rule3Matches(severity, summary_lower) THEN Rule3Plan(severity)
      ELSE IF Rule4Matches(summary_lower) THEN Rule4Plan
      ELSE IF DefaultAMatches(severity) THEN DefaultAPlan(severity)
      ELSE DefaultBPlan

(***************************************************************************)
(* Inputs.  A JSON field of the request body is a string, absent, or null. *)
(***************************************************************************)
Str(v) == [kind |-> "str", val |-> v]
Absent == [kind |-> "absent", val |-> <<>>]
Null == [kind |-> "null", val |-> <<>>]

Fragments ==
  { <<"d", "a", "t", "a", "b", "a", "s", "e", " ", "e", "r", "r", "o", "r", ",", " ">>,
    <<"f", "o", "r", "g", "o", "t", " ", "p", "a", "s", "s", "w", "o", "r", "d">>,
    <<"o", "b", "j", "e", "c", "t", " ">>,
    <<"4", "0", "4", "9", "9">>,
    <<"D", "A", "T", "A", "B", "A", "S", "E", " ", "E", "R", "R", "O", "R">>,
    <<"s", "u", "s", "p", "i", "c", "i", "o", "u", "s", " ", "t", "r", "a", "n", "s", "a", "c", "t", "i", "o", "n">>,
    <<"h", "o", "w", " ", "t", "o", " ">>,
    <<"a", "p", "p", " ", "f", "e", "e", "l", "s", " ", "s", "l", "o", "w">> }

RECURSIVE SummariesUpTo(_)
SummariesUpTo(n) ==
  IF n = 0 THEN {<<>>}
  ELSE LET shorter == SummariesUpTo(n - 1)
       IN  shorter \cup {s \o f : s \in shorter, f \in Fragments}

Summaries == SummariesUpTo(MaxFrags)

\* Severity strings a caller may send: the four values, other letter cases
\* of them, and strings that are none of them.
SeverityStrings ==
  { critical, high, medium, low,
    <<"H", "I", "G", "H">>,
    <<"M", "e", "d", "i", "u", "m">>,
    <<"u", "r", "g", "e", "n", "t">>,
    <<>> }

Channels == { <<"w", "e", "b">> }

Bodies ==
  [channel : {Str(c) : c \in Channels} \cup {Absent},
   severity : {Str(v) : v \in SeverityStrings} \cup {Absent, Null},
   summary : {Str(m) : m \in Summaries} \cup {Absent}]

\* An exception raised while the body of the try block runs.
NoFault == "none"
InternalFaults == {"MemoryError"}

(***************************************************************************)
(* Values of the variables before anything was stored in them.             *)
(***************************************************************************)
NoRequest == [channel |-> Absent, severity |-> Absent, summary |-> Absent]
NoTicket == [channel |-> <<>>, severity |-> <<>>, summary |-> <<>>]
NoOutcome == [kind |-> "none", plan |-> NonePlan, exc |-> ""]
NoDetail == [message |-> "", text |-> ""]
NoResponse == [status |-> 0, body |-> NonePlan, detail |-> NoDetail, errors |-> {}]

(***************************************************************************)
(* TicketInput: the validation of the request body.                        *)
(***************************************************************************)
\* severity declared as a plain str.
severity_valid_any_str(f) == f.kind = "str"

channel_valid(f) == f.kind = "str"

severity_valid(f) == f.kind = "str" /\ f.val \in {critical, high, medium, low}

summary_valid(f) == f.kind = "str"

invalid_fields(body) ==
  (IF channel_valid(body.channel) THEN {} ELSE {"channel"})
    \cup (IF severity_valid(body.severity) THEN {} ELSE {"severity"})
    \cup (IF summary_valid(body.summary) THEN {} ELSE {"summary"})

TicketInput(body) ==
  [channel |-> body.channel.val, severity |-> body.severity.val, summary |-> body.summary.val]

(***************************************************************************)
(* classify_ticket_endpoint: the try block and its except clause.          *)
(***************************************************************************)
Returned(plan) == [kind |-> "return", plan |-> plan, exc |-> ""]
Raised(e) == [kind |-> "raise", plan |-> NonePlan, exc |-> e]

\* A handler that calls the engine again when the first call raised.
endpoint_result_retry(t, fault) ==
  IF fault = NoFault
    THEN [outcome |-> Returned(categorize_ticket(t)), calls |-> 1,
          response |-> [status |-> 200, body |-> categorize_ticket(t),
                        detail |-> NoDetail, errors |-> {}]]
    ELSE [outcome |-> Returned(categorize_ticket(t)), calls |-> 2,
          response |-> [status |-> 200, body |-> categorize_ticket(t),
                        detail |-> NoDetail, errors |-> {}]]

endpoint_result(t, fault) ==
  IF fault = NoFault
    THEN LET result == categorize_ticket(t)
         IN  [outcome |-> Returned(result), calls |-> 1,
              response |-> [status |-> 200, body |-> result,
                            detail |-> NoDetail, errors |-> {}]]
    ELSE [outcome |-> Raised(fault), calls |-> 1,
          response |-> [status |-> 500, body |-> NonePlan,
                        detail |-> [message |-> "Internal classification error: ", text |-> fault],
                        errors |-> {}]]

(***************************************************************************)
(* The state machine.                                                      *)
(***************************************************************************)
Init ==
  /\ pc = "idle"
  /\ via = "none"
  /\ request = NoRequest
  /\ ticket = NoTicket
  /\ outcome = NoOutcome
  /\ response = NoResponse
  /\ engineCalls = 0
  /\ responsesSent = 0

\* A POST /categorize request arrives.
Receive(body) ==
  /\ pc = "idle"
  /\ pc' = "received"
  /\ via' = "http"
  /\ request' = body
  /\ ticket' = NoTicket
  /\ outcome' = NoOutcome
  /\ response' = NoResponse
  /\ engineCalls' = 0
  /\ responsesSent' = 0

\* The body parses into a TicketInput.
ValidationSucceeds ==
  /\ pc = "received"
  /\ invalid_fields(request) = {}
  /\ pc' = "validated"
  /\ ticket' = TicketInput(request)
  /\ UNCHANGED <<via, request, outcome, response, engineCalls, responsesSent>>

\* The body does not parse: 422 with the fields in error.
ValidationFails ==
  /\ pc = "received"
  /\ invalid_fields(request) # {}
  /\ pc' = "done"
  /\ response' = [status |-> 422, body |-> NonePlan, detail |-> NoDetail,
                  errors |-> invalid_fields(request)]
  /\ responsesSent' = responsesSent + 1
  /\ UNCHANGED <<via, request, ticket, outcome, engineCalls>>

classify_ticket_endpoint(fault) ==
  /\ pc = "validated"
  /\ LET r == endpoint_result(ticket, fault)
     IN  /\ outcome' = r.outcome
         /\ engineCalls' = engineCalls + r.calls
         /\ response' = r.response
  /\ responsesSent' = responsesSent + 1
  /\ pc' = "done"
  /\ UNCHANGED <<via, request, ticket>>

\* categorize_ticket called as a function, on a ticket no validation has seen.
DirectCall(channel, severity, summary) ==
  /\ pc = "idle"
  /\ pc' = "done"
  /\ via' = "direct"
  /\ request' = NoRequest
  /\ ticket' = [channel |-> channel, severity |-> severity, summary |-> summary]
  /\ outcome' = Returned(categorize_ticket(ticket'))
  /\ response' = NoResponse
  /\ engineCalls' = 1
  /\ responsesSent' = 0

\* The call is over: its ticket, plan and response are discarded, and the
\* next request or call finds nothing left of it.
Complete ==
  /\ pc = "done"
  /\ pc' = "idle"
  /\ via' = "none"
  /\ request' = NoRequest
  /\ ticket' = NoTicket
  /\ outcome' = NoOutcome
  /\ response' = NoResponse
  /\ engineCalls' = 0
  /\ responsesSent' = 0

Next ==
  \/ \E body \in Bodies : Receive(body)
  \/ ValidationSucceeds
  \/ ValidationFails
  \/ \E fault \in {NoFault} \cup InternalFaults : classify_ticket_endpoint(fault)
  \/ \E c \in Channels, v \in SeverityStrings, m \in Summaries : DirectCall(c, v, m)
  \/ Complete

Spec == Init /\ [][Next]_vars

TypeOK ==
  /\ pc \in {"idle", "received", "validated", "done"}
  /\ via \in {"none", "http", "direct"}
  /\ outcome.kind \in {"none", "return", "raise"}
  /\ response.status \in {0, 200, 422, 500}
  /\ engineCalls \in 0..2
  /\ responsesSent \in 0..2

(***************************************************************************)
(* The priority table the properties are stated against, written out      *)
(* independently of the definitions above: its keyword sets, case folding  *)
(* and occurrence of a keyword in a text.                                  *)
(***************************************************************************)
CaseFold ==
  ("A" :> "a") @@ ("B" :> "b") @@ ("C" :> "c") @@ ("D" :> "d") @@ ("E" :> "e")
    @@ ("F" :> "f") @@ ("G" :> "g") @@ ("H" :> "h") @@ ("I" :> "i") @@ ("J" :> "j")
    @@ ("K" :> "k") @@ ("L" :> "l") @@ ("M" :> "m") @@ ("N" :> "n") @@ ("O" :> "o")
    @@ ("P" :> "p") @@ ("Q" :> "q") @@ ("R" :> "r") @@ ("S" :> "s") @@ ("T" :> "t")
    @@ ("U" :> "u") @@ ("V" :> "v") @@ ("W" :> "w") @@ ("X" :> "x") @@ ("Y" :> "y")
    @@ ("Z" :> "z")

Folded(s) == [i \in 1..Len(s) |-> IF s[i] \in DOMAIN CaseFold THEN CaseFold[s[i]] ELSE s[i]]

Occurs(kw, s) ==
  \E i \in 1..(Len(s) - Len(kw) + 1) : SubSeq(s, i, i + Len(kw) - 1) = kw

OccursAny(kws, s) == \E kw \in kws : Occurs(kw, s)

TableRule1Keywords ==
  { <<"e", "r", "r", "o", "r">>,
    <<"f", "a", "i", "l", "u", "r", "e">>,
    <<"b", "u", "g">>,
    <<"4", "0", "4">>,
    <<"5", "0", "0">>,
    <<"i", "n", "c", "o", "r", "r", "e", "c", "t", " ", "c", "a", "l", "c", "u", "l", "a", "t", "i", "o", "n">>,
    <<"d", "a", "t", "a", "b", "a", "s", "e">>,
    <<"a", "p", "i", " ", "d", "o", "w", "n">>,
    <<"s", "y", "s", "t", "e", "m", " ", "c", "r", "a", "s", "h">> }

TableRule2Keywords ==
  { <<"f", "r", "a", "u", "d">>,
    <<"t", "r", "a", "n", "s", "a", "c", "t", "i", "o", "n">>,
    <<"p", "a", "y", "m", "e", "n", "t", " ", "p", "r", "o", "c", "e", "s", "s", "i", "n", "g">> }

TableRule3Keywords ==
  { <<"f", "o", "r", "g", "o", "t", " ", "p", "a", "s", "s", "w", "o", "r", "d">>,
    <<"r", "e", "s", "e", "t", " ", "p", "i", "n">>,
    <<"l", "o", "c", "k", "e", "d">>,
    <<"a", "c", "c", "o", "u", "n", "t", " ", "b", "l", "o", "c", "k", "e", "d">>,
    <<"r", "a", "t", "e", " ", "l", "i", "m", "i", "t">>,
    <<"c", "a", "n", "n", "o", "t", " ", "l", "o", "g", " ", "i", "n">>,
    <<"u", "p", "d", "a", "t", "e", " ", "a", "d", "d", "r", "e", "s", "s">> }

TableRule4Keywords ==
  { <<"h", "o", "w", " ", "t", "o">>,
    <<"q", "u", "e", "s", "t", "i", "o", "n", " ", "a", "b", "o", "u", "t">>,
    <<"n", "e", "e", "d", " ", "h", "e", "l", "p", " ", "w", "i", "t", "h">>,
    <<"i", "n", "q", "u", "i", "r", "e">> }

SevCritical == <<"c", "r", "i", "t", "i", "c", "a", "l">>
SevHigh == <<"h", "i", "g", "h">>
SevMedium == <<"m", "e", "d", "i", "u", "m">>
SevLow == <<"l", "o", "w">>
ValidSeverities == {SevCritical, SevHigh, SevMedium, SevLow}

\* The number of the first row of the table whose condition holds.
TableRow(sev, text) ==
  IF sev \in {SevCritical, SevHigh} /\ OccursAny(TableRule1Keywords, text) THEN 1
  ELSE IF sev = SevHigh /\ OccursAny(TableRule2Keywords, text) THEN 2
  ELSE IF sev \in {SevMedium, SevLow} /\ OccursAny(TableRule3Keywords, text) THEN 3
  ELSE IF OccursAny(TableRule4Keywords, text) THEN 4
  ELSE IF sev \in {SevCritical, SevHigh} THEN 5
  ELSE 6

RowDecision(row) == IF row \in {1, 2, 5} THEN "AI_CODE_PATCH" ELSE "VIBE_WORKFLOW"

RowChecklist(row) ==
  CASE row = 1 -> Rule1Checklist
    [] row = 2 -> Rule2Checklist
    [] row = 3 -> Rule3Checklist
    [] row = 4 -> Rule4Checklist
    [] row = 5 -> DefaultAChecklist
    [] OTHER -> DefaultBChecklist

\* categorize_ticket was applied to the ticket and nothing interrupted it.
EngineApplied ==
  /\ pc = "done"
  /\ engineCalls > 0
  /\ outcome.exc \notin InternalFaults

ExampleBothKeywords ==
  <<"d", "a", "t", "a", "b", "a", "s", "e", " ", "e", "r", "r", "o", "r", ",", " ", "f", "o", "r", "g", "o", "t", " ", "p", "a", "s", "s", "w", "o", "r", "d">>

ExampleObject40499 ==
  <<"o", "b", "j", "e", "c", "t", " ", "4", "0", "4", "9", "9">>

ExampleUpperSummary ==
  <<"D", "A", "T", "A", "B", "A", "S", "E", " ", "E", "R", "R", "O", "R">>

ExampleInquiry ==
  <<"h", "o", "w", " ", "t", "o", " ">>

(***************************************************************************)
(* Properties.                                                             *)
(***************************************************************************)
\* C1 (totality): whenever categorize_ticket was applied to a ticket whose
\* severity is one of critical, high, medium, low, with any summary (the
\* empty one included), it returned an ActionPlan, not None and not an
\* exception, whose decision is AI_CODE_PATCH or VIBE_WORKFLOW and whose
\* next_actions_checklist is not empty.
C1_Totality ==
  (EngineApplied /\ ticket.severity \in ValidSeverities) =>
    /\ outcome.kind = "return"
    /\ outcome.plan # NonePlan
    /\ outcome.plan.decision \in {"AI_CODE_PATCH", "VIBE_WORKFLOW"}
    /\ Len(outcome.plan.next_actions_checklist) > 0

\* C1 witness: a low ticket with the empty summary got the plan of default B.
C1_Witness ==
  /\ EngineApplied
  /\ ticket.severity = SevLow
  /\ ticket.summary = <<>>
  /\ outcome.kind = "return"
  /\ outcome.plan.next_actions_checklist = DefaultBChecklist

\* C2 (priority ordering): for every valid ticket the plan returned is the
\* plan of the lowest-numbered row of the table whose condition holds on the
\* lower-cased severity and summary; a high or critical ticket carrying both
\* a rule-1 and a rule-3 keyword resolves via rule 1.
C2_PriorityOrdering ==
  (EngineApplied /\ ticket.severity \in ValidSeverities) =>
    LET row == TableRow(Folded(ticket.severity), Folded(ticket.summary))
    IN  /\ outcome.plan.decision = RowDecision(row)
        /\ outcome.plan.next_actions_checklist = RowChecklist(row)

\* C2 witness: severity high, summary "database error, forgot password",
\* resolved by rule 1.
C2_Witness ==
  /\ EngineApplied
  /\ ticket.severity = SevHigh
  /\ ticket.summary = ExampleBothKeywords
  /\ outcome.plan.decision = "AI_CODE_PATCH"
  /\ outcome.plan.next_actions_checklist = Rule1Checklist

C4_InquiryAnySeverity ==
  LET sev == Folded(ticket.severity)
      text == Folded(ticket.summary)
  IN  ( /\ EngineApplied
        /\ OccursAny(TableRule4Keywords, text)
        /\ ~(sev \in {SevCritical, SevHigh} /\ OccursAny(TableRule1Keywords, text))
        /\ ~(sev = SevHigh /\ OccursAny(TableRule2Keywords, text))
        /\ ~(sev \in {SevMedium, SevLow} /\ OccursAny(TableRule3Keywords, text)) )
      => /\ outcome.plan.decision = "VIBE_WORKFLOW"
         /\ outcome.plan.next_actions_checklist = Rule4Checklist

\* C4 witness: a critical ticket whose summary is "how to " went to rule 4.
C4_Witness ==
  /\ EngineApplied
  /\ ticket.severity = SevCritical
  /\ ticket.summary = ExampleInquiry
  /\ outcome.plan.decision = "VIBE_WORKFLOW"
  /\ outcome.plan.next_actions_checklist = Rule4Checklist

\* A request body is well formed when its three fields are strings and its
\* severity is one of the four values.
WellFormed(body) ==
  /\ body.channel.kind = "str"
  /\ body.summary.kind = "str"
  /\ body.severity.kind = "str"
  /\ body.severity.val \in ValidSeverities

\* C5 (validation precedes the core): a POST /categorize request with a
\* missing or malformed field, or a severity that is not one of the four
\* values, never has categorize_ticket invoked and is answered with 422;
\* categorize_ticket is invoked for a request only after its validation
\* succeeded.
C5_ValidationFirst ==
  via = "http" =>
    /\ ~WellFormed(request) =>
         /\ engineCalls = 0
         /\ outcome.kind = "none"
         /\ pc \in {"received", "done"}
         /\ pc = "done" => response.status = 422 /\ response.errors # {}
    /\ engineCalls > 0 => WellFormed(request) /\ ticket = TicketInput(request)
    /\ pc = "received" => engineCalls = 0

\* C5 witness: a request whose severity is "urgent" was answered with 422
\* while the engine was never called.
C5_Witness ==
  /\ via = "http"
  /\ pc = "done"
  /\ request.severity = Str(<<"u", "r", "g", "e", "n", "t">>)
  /\ request.channel.kind = "str"
  /\ request.summary.kind = "str"
  /\ response.status = 422
  /\ response.errors = {"severity"}
  /\ engineCalls = 0

\* C6 (handler outcomes): a validated request has categorize_ticket invoked
\* exactly once and is answered exactly once, with 200 and the complete
\* ActionPlan the engine returned, or with 500 and a message wrapping the
\* exception text when the engine raised; never with a partial plan.
C6_HandlerOutcomes ==
  (via = "http" /\ WellFormed(request)) =>
    /\ pc \in {"received", "validated"} => engineCalls = 0 /\ responsesSent = 0
    /\ pc = "done" =>
         /\ engineCalls = 1
         /\ responsesSent = 1
         /\ \/ /\ outcome.kind = "return"
               /\ response.status = 200
               /\ response.body = outcome.plan
               /\ response.body.decision \in {"AI_CODE_PATCH", "VIBE_WORKFLOW"}
               /\ response.body.reasoning.template # ""
               /\ Len(response.body.next_actions_checklist) > 0
               /\ response.detail = NoDetail
            \/ /\ outcome.kind = "raise"
               /\ response.status = 500
               /\ response.body = NonePlan
               /\ response.detail.message = "Internal classification error: "
               /\ response.detail.text = outcome.exc

\* C6 witness: a validated request was answered once with 200 and the plan
\* of the one engine call.
C6_Witness ==
  /\ via = "http"
  /\ pc = "done"
  /\ WellFormed(request)
  /\ engineCalls = 1
  /\ responsesSent = 1
  /\ response.status = 200
  /\ response.body = outcome.plan
  /\ response.body.next_actions_checklist = Rule2Checklist

\* The except clause of the handler was taken and answered with 500.
HandlerAnswered500 ==
  /\ via = "http"
  /\ pc = "done"
  /\ outcome.kind = "raise"
  /\ response.status = 500

\* C8 (plain substring matching): a rule-1 keyword matches wherever it
\* occurs in the lower-cased summary, inside a longer word or number too, so
\* a critical or high ticket whose summary is "object 40499" resolves via
\* rule 1 on keyword "404".
C8_SubstringMatch ==
  \A kw \in TableRule1Keywords :
    \A i \in 1..Len(ticket.summary) :
      ( /\ EngineApplied
        /\ Folded(ticket.severity) \in {SevCritical, SevHigh}
        /\ i + Len(kw) - 1 <= Len(ticket.summary)
        /\ SubSeq(Folded(ticket.summary), i, i + Len(kw) - 1) = kw )
      => /\ outcome.plan.decision = "AI_CODE_PATCH"
         /\ outcome.plan.next_actions_checklist = Rule1Checklist

\* C8 witness: severity critical, summary "object 40499", resolved by rule 1.
C8_Witness ==
  /\ EngineApplied
  /\ ticket.severity = SevCritical
  /\ ticket.summary = ExampleObject40499
  /\ outcome.plan.decision = "AI_CODE_PATCH"
  /\ outcome.plan.next_actions_checklist = Rule1Checklist

\* C9 (severity bounds the decision): a ticket of severity medium or low
\* gets VIBE_WORKFLOW whatever its summary, and AI_CODE_PATCH is returned
\* only when the severity is critical or high.
C9_RoutineNeverPatch ==
  EngineApplied =>
    /\ Folded(ticket.severity) \in {SevMedium, SevLow}
         => outcome.plan.decision = "VIBE_WORKFLOW"
    /\ outcome.plan.decision = "AI_CODE_PATCH"
         => Folded(ticket.severity) \in {SevCritical, SevHigh}

\* C9 witness: a medium ticket whose summary holds "database" and "error"
\* got VIBE_WORKFLOW.
C9_Witness ==
  /\ EngineApplied
  /\ ticket.severity = SevMedium
  /\ OccursAny(TableRule1Keywords, ticket.summary)
  /\ outcome.plan.decision = "VIBE_WORKFLOW"

\* C10 (a severity outside the four values): when such a severity reaches
\* categorize_ticket the engine still returns: VIBE_WORKFLOW, by rule 4 when
\* the summary holds an inquiry keyword and by default B otherwise.
C10_UnknownSeverity ==
  (EngineApplied /\ Folded(ticket.severity) \notin ValidSeverities) =>
    /\ outcome.kind = "return"
    /\ outcome.plan.decision = "VIBE_WORKFLOW"
    /\ outcome.plan.next_actions_checklist =
         IF OccursAny(TableRule4Keywords, Folded(ticket.summary))
           THEN Rule4Checklist ELSE DefaultBChecklist

\* C10 witness: severity "urgent" with a summary holding rule-1 keywords and
\* no inquiry keyword ended in default B.
C10_Witness ==
  /\ EngineApplied
  /\ ticket.severity = <<"u", "r", "g", "e", "n", "t">>
  /\ OccursAny(TableRule1Keywords, ticket.summary)
  /\ ~OccursAny(TableRule4Keywords, ticket.summary)
  /\ outcome.plan.decision = "VIBE_WORKFLOW"
  /\ outcome.plan.next_actions_checklist = DefaultBChecklist

====
